---- MODULE Spec2Model ----
(***************************************************************************)
(* Model of class Classifier of src/main.cpp: a Naive Bayes classifier     *)
(* for labelled posts.  train_classifier folds the training file into the  *)
(* frequency tables, test_classifier calls predict_label once per test     *)
(* record and counts the correct predictions.                              *)
(*                                                                         *)
(* Representation.                                                         *)
(*  - A content string is the sequence of whitespace-delimited words that  *)
(*    `source >> word` extracts from it, so duplicates and order are kept. *)
(*  - A std::map is a function whose DOMAIN is the map's key set;          *)
(*    operator[] on an absent key inserts it with the value-initialised    *)
(*    mapped value (0, or the empty inner map).  std::map and std::set     *)
(*    iterate in ascending key order (std::less<string>).                  *)
(*  - log(n/d) is represented by the reduced fraction <<n, d>>; a sum of   *)
(*    logarithms is the product of the fractions and `>` on scores is `>`  *)
(*    on the fractions (log is taken as the real, monotone logarithm).     *)
(***************************************************************************)
EXTENDS Integers, Sequences, FiniteSets, TLC

\* ------------------------------------------------------------------ bounds
MaxLen == 2        \* words per content string
MaxTrain == 2      \* records in the training file
MaxTests == 2      \* records in the test file

\* ------------------------------------------------------------------ inputs
\* Labels and words, each listed in ascending std::less<string> order.
LabelOrder == <<"cs", "math">>
WordOrder == <<"x", "y">>

Range(s) == {s[i] : i \in DOMAIN s}

Labels == Range(LabelOrder)
Words == Range(WordOrder)
Contents == UNION {[1..n -> Words] : n \in 0..MaxLen}

\* Values an uninitialised double member may hold after construction.
Indeterminate == {0, 1}
\* What a read of prob_scores[0] of an empty vector may yield.
GarbageLabels == {"", "cs"}
GarbageScores == {<<0, 1>>, <<1, 1>>}

\* ------------------------------------------------------------- std::map
EmptyMap == [k \in {} |-> 0]

\* Value held under key k, with the value operator[] would create if absent.
Get(map, k) == IF k \in DOMAIN map THEN map[k] ELSE 0

Put(map, k, v) == [x \in DOMAIN map \cup {k} |-> IF x = k THEN v ELSE map[x]]

\* The map after `map[k]` has been evaluated: an absent key is inserted.
Touch(map, k, dflt) == IF k \in DOMAIN map THEN map ELSE Put(map, k, dflt)

\* Ascending iteration over a set of words / labels.
SortedWords(S) == SelectSeq(WordOrder, LAMBDA w : w \in S)
SortedLabels(S) == SelectSeq(LabelOrder, LAMBDA l : l \in S)

RECURSIVE SumOver(_, _)
SumOver(f, S) ==
    IF S = {} THEN 0
    ELSE LET k == CHOOSE x \in S : TRUE IN f[k] + SumOver(f, S \ {k})

\* ------------------------------------------------------------ log values
RECURSIVE GCD(_, _)
GCD(a, b) == IF b = 0 THEN a ELSE GCD(b, a % b)

Norm(q) ==
    IF q[1] = 0 /\ q[2] = 0 THEN q
    ELSE LET g == GCD(q[1], q[2]) IN <<q[1] \div g, q[2] \div g>>

\* log(n / d)
Log(n, d) == Norm(<<n, d>>)

\* a + b on logarithms
Add(a, b) == Norm(<<a[1] * b[1], a[2] * b[2]>>)

\* a > b on logarithms (denominators are counts, hence >= 0)
Greater(a, b) == a[1] * b[2] > b[1] * a[2]

\* ------------------------------------------------------------- the model
VARIABLES
    pc,            \* position of main: "init", "train", "trained", "test", "done", "crashed"
    total_posts,
    vocab_size,
    word_count,
    label_count,
    C_w_count,
    correct_post,  \* the test record last read
    prob_scores,   \* predict_label's vector in the last call
    label_score,   \* test_classifier's label_score
    num_correct,
    num_posts,
    log_calls,     \* the log() evaluations of the last operation
    first_seen,    \* labels in the order of their first training record
    trained,       \* the tables as train_classifier left them
    doubled        \* the tables of a second Classifier, trained on the same
                   \* records with every word of every content written twice

vars == <<pc, total_posts, vocab_size, word_count, label_count, C_w_count,
          correct_post, prob_scores, label_score, num_correct, num_posts,
          log_calls, first_seen, trained, doubled>>

\* The Frequency Model held by the object.
Model ==
    [total_posts |-> total_posts, vocab_size |-> vocab_size,
     word_count |-> word_count, label_count |-> label_count,
     C_w_count |-> C_w_count]

NoModel ==
    [total_posts |-> 0, vocab_size |-> 0, word_count |-> EmptyMap,
     label_count |-> EmptyMap, C_w_count |-> EmptyMap]

\* set<string> unique_words(const string &str)
unique_words(str) == Range(str)

\* ---------------------------------------------------------------- training
\* Number of occurrences of w in str.
Occurrences(str, w) == Cardinality({i \in DOMAIN str : str[i] = w})

\* train_post iterating over the words of the content instead of over the
\* set of its unique words.
train_post_per_occurrence(m, tag, content) ==
    LET U == Range(content)
        inner == IF tag \in DOMAIN m.C_w_count THEN m.C_w_count[tag] ELSE EmptyMap
    IN [m EXCEPT
          !.label_count = Put(@, tag, Get(@, tag) + 1),
          !.word_count =
              [w \in DOMAIN @ \cup U |-> Get(@, w) + Occurrences(content, w)],
          !.C_w_count =
              IF U = {} THEN @
              ELSE Put(@, tag,
                       [w \in DOMAIN inner \cup U |->
                            Get(inner, w) + Occurrences(content, w)]),
          !.total_posts = @ + 1]

\* train_post with `C_w_count[post["tag"]][word] += 1` left out for a word the
\* label already has.
train_post_joint_once(m, tag, content) ==
    LET U == unique_words(content)
        inner == IF tag \in DOMAIN m.C_w_count THEN m.C_w_count[tag] ELSE EmptyMap
    IN [m EXCEPT
          !.label_count = Put(@, tag, Get(@, tag) + 1),
          !.word_count =
              [w \in DOMAIN @ \cup U |-> Get(@, w) + (IF w \in U THEN 1 ELSE 0)],
          !.C_w_count =
              IF U = {} THEN @
              ELSE Put(@, tag,
                       [w \in DOMAIN inner \cup U |->
                            IF w \in DOMAIN inner THEN inner[w] ELSE 1]),
          !.total_posts = @ + 1]

\* One iteration of train_classifier's while loop on the record (tag, content).
train_post(m, tag, content) ==
    LET U == unique_words(content)
        inner == IF tag \in DOMAIN m.C_w_count THEN m.C_w_count[tag] ELSE EmptyMap
    IN [m EXCEPT
          !.label_count = Put(@, tag, Get(@, tag) + 1),
          !.word_count =
              [w \in DOMAIN @ \cup U |-> Get(@, w) + (IF w \in U THEN 1 ELSE 0)],
          !.C_w_count =
              IF U = {} THEN @
              ELSE Put(@, tag,
                       [w \in DOMAIN inner \cup U |->
                            Get(inner, w) + (IF w \in U THEN 1 ELSE 0)]),
          !.total_posts = @ + 1]

\* vocab_size = word_count.size() once the training file is exhausted.
train_finish(m) == [m EXCEPT !.vocab_size = Cardinality(DOMAIN m.word_count)]

\* ----------------------------------------------------------------- scoring
\* Each operator returns the value (ret), the tables after the call (m: the
\* operator[] look-ups insert absent keys) and the log() evaluation it made.

\* double calc_log_prior(string label)
calc_log_prior(m, label) ==
    LET lc == Touch(m.label_count, label, 0)
    IN [ret |-> Log(lc[label], m.total_posts),
        m |-> [m EXCEPT !.label_count = lc],
        call |-> [fn |-> "prior", label |-> label, word |-> "", branch |-> 0,
                  num |-> lc[label], den |-> m.total_posts,
                  joint |-> 0, global |-> 0]]

\* calc_log_likelihood whose unseen-word floor is 1 / word_count.size(), the
\* size being taken on entry.
calc_log_likelihood_vocab_floor(m, label, word) ==
    LET cw0 == Touch(m.C_w_count, label, EmptyMap)
        cw == [cw0 EXCEPT ![label] = Touch(@, word, 0)]
        wc == Touch(m.word_count, word, 0)
        joint == cw[label][word]
        branch == IF joint = 0 /\ wc[word] # 0 THEN 1
                  ELSE IF wc[word] = 0 THEN 2
                  ELSE 3
        lc == IF branch = 3 THEN Touch(m.label_count, label, 0) ELSE m.label_count
        num == IF branch = 1 THEN wc[word] ELSE IF branch = 2 THEN 1 ELSE joint
        den == IF branch = 3 THEN lc[label]
               ELSE IF branch = 2 THEN Cardinality(DOMAIN m.word_count)
               ELSE m.total_posts
    IN [ret |-> Log(num, den),
        m |-> [m EXCEPT !.C_w_count = cw, !.word_count = wc, !.label_count = lc],
        call |-> [fn |-> "likelihood", label |-> label, word |-> word,
                  branch |-> branch, num |-> num, den |-> den,
                  joint |-> joint, global |-> wc[word]]]

\* calc_log_likelihood without the first branch (the global-count fallback).
calc_log_likelihood_no_fallback(m, label, word) ==
    LET cw0 == Touch(m.C_w_count, label, EmptyMap)
        cw == [cw0 EXCEPT ![label] = Touch(@, word, 0)]
        wc == Touch(m.word_count, word, 0)
        joint == cw[label][word]
        branch == IF wc[word] = 0 THEN 2 ELSE 3
        lc == IF branch = 3 THEN Touch(m.label_count, label, 0) ELSE m.label_count
        num == IF branch = 2 THEN 1 ELSE joint
        den == IF branch = 3 THEN lc[label] ELSE m.total_posts
    IN [ret |-> Log(num, den),
        m |-> [m EXCEPT !.C_w_count = cw, !.word_count = wc, !.label_count = lc],
        call |-> [fn |-> "likelihood", label |-> label, word |-> word,
                  branch |-> branch, num |-> num, den |-> den,
                  joint |-> joint, global |-> wc[word]]]

\* double calc_log_likelihood(string label, string word)
calc_log_likelihood(m, label, word) ==
    LET cw0 == Touch(m.C_w_count, label, EmptyMap)
        cw == [cw0 EXCEPT ![label] = Touch(@, word, 0)]
        wc == Touch(m.word_count, word, 0)
        joint == cw[label][word]
        branch == IF joint = 0 /\ wc[word] # 0 THEN 1
                  ELSE IF wc[word] = 0 THEN 2
                  ELSE 3
        lc == IF branch = 3 THEN Touch(m.label_count, label, 0) ELSE m.label_count
        num == IF branch = 1 THEN wc[word] ELSE IF branch = 2 THEN 1 ELSE joint
        den == IF branch = 3 THEN lc[label] ELSE m.total_posts
    IN [ret |-> Log(num, den),
        m |-> [m EXCEPT !.C_w_count = cw, !.word_count = wc, !.label_count = lc],
        call |-> [fn |-> "likelihood", label |-> label, word |-> word,
                  branch |-> branch, num |-> num, den |-> den,
                  joint |-> joint, global |-> wc[word]]]

\* The for loop of calc_log_prob_score over the remaining words ws.
RECURSIVE likelihood_loop(_, _, _, _, _)
likelihood_loop(m, label, ws, score, calls) ==
    IF ws = << >> THEN [ret |-> score, m |-> m, calls |-> calls]
    ELSE LET r == calc_log_likelihood(m, label, Head(ws))
         IN likelihood_loop(r.m, label, Tail(ws), Add(score, r.ret),
                            calls \cup {r.call})

\* double calc_log_prob_score(string label), content = correct_post["content"]
calc_log_prob_score(m, label, content) ==
    LET p == calc_log_prior(m, label)
    IN likelihood_loop(p.m, label, SortedWords(unique_words(content)),
                       p.ret, {p.call})

\* The first loop of predict_label over the remaining labels ls.
RECURSIVE score_loop(_, _, _, _, _)
score_loop(m, ls, content, ps, calls) ==
    IF ls = << >> THEN [prob_scores |-> ps, m |-> m, calls |-> calls]
    ELSE LET r == calc_log_prob_score(m, Head(ls), content)
         IN score_loop(r.m, Tail(ls), content,
                       Append(ps, <<Head(ls), r.ret>>), calls \cup r.calls)

\* max_step comparing with >= instead of >.
max_step_ge(best, cand) == IF ~Greater(best[2], cand[2]) THEN cand ELSE best

\* Body of the second loop: keep the running maximum unless strictly beaten.
max_step(best, cand) == IF Greater(cand[2], best[2]) THEN cand ELSE best

RECURSIVE max_loop(_, _, _)
max_loop(ps, i, best) ==
    IF i > Len(ps) THEN best ELSE max_loop(ps, i + 1, max_step(best, ps[i]))

\* pair<string,double> predict_label().  defined = FALSE when prob_scores is
\* empty: prob_scores[0] is then read out of bounds.
predict_label(m, content) ==
    LET s == score_loop(m, SortedLabels(DOMAIN m.C_w_count), content, << >>, {})
    IN [defined |-> s.prob_scores # << >>,
        ret |-> IF s.prob_scores = << >> THEN <<"", <<0, 0>>>>
                ELSE max_loop(s.prob_scores, 1, s.prob_scores[1]),
        prob_scores |-> s.prob_scores, m |-> s.m, calls |-> s.calls]

\* The calc_log_prior / calc_log_likelihood calls of print_debug_data.
RECURSIVE debug_priors(_, _, _)
debug_priors(m, ls, calls) ==
    IF ls = << >> THEN [m |-> m, calls |-> calls]
    ELSE LET r == calc_log_prior(m, Head(ls))
         IN debug_priors(r.m, Tail(ls), calls \cup {r.call})

RECURSIVE debug_likelihoods(_, _, _)
debug_likelihoods(m, pairs, calls) ==
    IF pairs = {} THEN [m |-> m, calls |-> calls]
    ELSE LET p == CHOOSE x \in pairs : TRUE
             r == calc_log_likelihood(m, p[1], p[2])
         IN debug_likelihoods(r.m, pairs \ {p}, calls \cup {r.call})

print_debug_data(m) ==
    LET a == debug_priors(m, SortedLabels(DOMAIN m.label_count), {})
    IN debug_likelihoods(a.m,
           {<<l, w>> \in Labels \X Words :
                l \in DOMAIN a.m.C_w_count /\ w \in DOMAIN a.m.C_w_count[l]},
           a.calls)

\* ------------------------------------------------------------------ actions
NoPost == [tag |-> "", content |-> << >>]
NoScore == <<"", <<0, 0>>>>

\* The content in which every word of str is written twice.
DoubleWords(str) == [i \in 1..(2 * Len(str)) |-> str[(i + 1) \div 2]]

\* After `Classifier classifier;`: the maps are empty, the doubles are not
\* initialised.
Init ==
    /\ pc = "init"
    /\ total_posts \in Indeterminate
    /\ vocab_size \in Indeterminate
    /\ word_count = EmptyMap
    /\ label_count = EmptyMap
    /\ C_w_count = EmptyMap
    /\ correct_post = NoPost
    /\ prob_scores = << >>
    /\ label_score = NoScore
    /\ num_correct = 0
    /\ num_posts = 0
    /\ log_calls = {}
    /\ first_seen = << >>
    /\ trained = NoModel
    /\ doubled = NoModel

SetModel(m) ==
    /\ total_posts' = m.total_posts
    /\ vocab_size' = m.vocab_size
    /\ word_count' = m.word_count
    /\ label_count' = m.label_count
    /\ C_w_count' = m.C_w_count

\* train_classifier up to its loop: total_posts = 0.
TrainBegin ==
    /\ pc = "init"
    /\ pc' = "train"
    /\ total_posts' = 0
    /\ UNCHANGED <<vocab_size, word_count, label_count, C_w_count, correct_post,
                   prob_scores, label_score, num_correct, num_posts, log_calls,
                   first_seen, trained, doubled>>

\* while(csvin >> post) { ... }: one training record.
TrainRecord(tag, content) ==
    /\ pc = "train"
    /\ total_posts < MaxTrain
    /\ SetModel(train_post(Model, tag, content))
    /\ first_seen' = IF tag \in Range(first_seen) THEN first_seen
                     ELSE Append(first_seen, tag)
    /\ doubled' = train_post(doubled, tag, DoubleWords(content))
    /\ UNCHANGED <<pc, correct_post, prob_scores, label_score, num_correct,
                   num_posts, log_calls, trained>>

\* The training file is exhausted: vocab_size is set, train_classifier returns.
TrainEnd ==
    /\ pc = "train"
    /\ pc' = "trained"
    /\ SetModel(train_finish(Model))
    /\ trained' = train_finish(Model)
    /\ doubled' = train_finish(doubled)
    /\ UNCHANGED <<correct_post, prob_scores, label_score, num_correct,
                   num_posts, log_calls, first_seen>>

\* main with --debug: print_debug_data, then test_classifier starts.
DebugPrint ==
    /\ pc = "trained"
    /\ pc' = "test"
    /\ \E r \in {print_debug_data(Model)} :
          /\ SetModel(r.m)
          /\ log_calls' = r.calls
    /\ UNCHANGED <<correct_post, prob_scores, label_score, num_correct,
                   num_posts, first_seen, trained, doubled>>

\* main without --debug: test_classifier starts.
TestBegin ==
    /\ pc = "trained"
    /\ pc' = "test"
    /\ UNCHANGED <<total_posts, vocab_size, word_count, label_count, C_w_count,
                   correct_post, prob_scores, label_score, num_correct,
                   num_posts, log_calls, first_seen, trained, doubled>>

\* count_post without the comparison.
count_post_always(correct, tag, predicted) == correct + 1

\* Lines 209-212: count the record.
count_post(correct, tag, predicted) == IF tag = predicted THEN correct + 1 ELSE correct

\* while(csvin >> correct_post) { ... }: one test record, predict_label defined.
TestRecord(tag, content) ==
    /\ pc = "test"
    /\ num_posts < MaxTests
    /\ DOMAIN C_w_count # {}
    /\ \E r \in {predict_label(Model, content)} :
          /\ r.defined
          /\ SetModel(r.m)
          /\ prob_scores' = r.prob_scores
          /\ label_score' = r.ret
          /\ log_calls' = r.calls
          /\ num_correct' = count_post(num_correct, tag, r.ret[1])
    /\ correct_post' = [tag |-> tag, content |-> content]
    /\ num_posts' = num_posts + 1
    /\ UNCHANGED <<pc, first_seen, trained, doubled>>

\* One test record when C_w_count has no key: prob_scores[0] is read from an
\* empty vector (undefined behaviour) and whatever is found there is returned.
TestRecordGarbage(tag, content, label, score) ==
    /\ pc = "test"
    /\ num_posts < MaxTests
    /\ DOMAIN C_w_count = {}
    /\ \E r \in {predict_label(Model, content)} :
          /\ ~r.defined
          /\ SetModel(r.m)
          /\ prob_scores' = r.prob_scores
          /\ log_calls' = r.calls
    /\ label_score' = <<label, score>>
    /\ num_correct' = count_post(num_correct, tag, label)
    /\ correct_post' = [tag |-> tag, content |-> content]
    /\ num_posts' = num_posts + 1
    /\ UNCHANGED <<pc, first_seen, trained, doubled>>

\* The same out-of-bounds read ends the process (segmentation fault).
TestRecordCrash(tag, content) ==
    /\ pc = "test"
    /\ num_posts < MaxTests
    /\ DOMAIN C_w_count = {}
    /\ \E r \in {predict_label(Model, content)} :
          /\ ~r.defined
          /\ SetModel(r.m)
          /\ prob_scores' = r.prob_scores
          /\ log_calls' = r.calls
    /\ correct_post' = [tag |-> tag, content |-> content]
    /\ pc' = "crashed"
    /\ UNCHANGED <<label_score, num_correct, num_posts, first_seen, trained,
                   doubled>>

\* The test file is exhausted: test_classifier returns {num_correct, num_posts}.
TestEnd ==
    /\ pc = "test"
    /\ pc' = "done"
    /\ UNCHANGED <<total_posts, vocab_size, word_count, label_count, C_w_count,
                   correct_post, prob_scores, label_score, num_correct,
                   num_posts, log_calls, first_seen, trained, doubled>>

Next ==
    \/ TrainBegin
    \/ \E tag \in Labels, content \in Contents : TrainRecord(tag, content)
    \/ TrainEnd
    \/ DebugPrint
    \/ TestBegin
    \/ \E tag \in Labels, content \in Contents : TestRecord(tag, content)
    \/ \E tag \in Labels, content \in Contents, label \in GarbageLabels,
          score \in GarbageScores : TestRecordGarbage(tag, content, label, score)
    \/ \E tag \in Labels, content \in Contents : TestRecordCrash(tag, content)
    \/ TestEnd

Spec == Init /\ [][Next]_vars

\* ------------------------------------------------------------------ claims
AfterTraining == pc \in {"trained", "test", "done", "crashed"}

\* predict_label has been called for the record in correct_post.
Predicted == correct_post # NoPost

\* The last call of predict_label computed its result from scores.
Scored == Predicted /\ prob_scores # << >>

ScoredLabels == {p[1] : p \in Range(prob_scores)}

\* The entries of prob_scores that no other entry strictly beats.
Greatest == {p \in Range(prob_scores) :
                \A q \in Range(prob_scores) : ~Greater(q[2], p[2])}

Position(seq, x) == CHOOSE i \in DOMAIN seq : seq[i] = x

\* The label of S that comes first in seq.
FirstIn(seq, S) ==
    CHOOSE l \in S : \A k \in S : Position(seq, l) <= Position(seq, k)

\* C1 (as claimed): when two or more labels share the greatest score, the
\* label returned is the one whose first training record came earliest.
C1_FirstSeenTieBreak ==
    (Scored /\ Cardinality(Greatest) >= 2) =>
        label_score[1] = FirstIn(first_seen, {p[1] : p \in Greatest})

\* C1 (amended): when two or more scored labels share the greatest score, the
\* label returned is the least of them in ascending string order, the order
\* in which the std::map C_w_count is iterated, and its score is that
\* greatest score.
C1_SortedTieBreak ==
    (Scored /\ Cardinality(Greatest) >= 2) =>
        /\ label_score[1] = FirstIn(LabelOrder, {p[1] : p \in Greatest})
        /\ label_score \in Greatest

\* A tie between two labels first seen in the order math, cs.
C1_Witness ==
    /\ Scored
    /\ Cardinality(Greatest) >= 2
    /\ first_seen = <<"math", "cs">>
    /\ label_score[1] = "cs"

\* C2: on a model trained on a non-empty stream predict_label scores every
\* key of label_count and returns a label of greatest log_score among them,
\* paired with that score.
C2_ScoresEveryObservedLabel ==
    (Predicted /\ total_posts > 0) =>
        /\ pc # "crashed"
        /\ ScoredLabels = DOMAIN label_count
        /\ label_score \in Range(prob_scores)
        /\ \A l \in DOMAIN label_count :
              ~Greater(calc_log_prob_score(Model, l, correct_post.content).ret,
                       label_score[2])

\* C3: once training has finished the tables stay as training left them,
\* key sets and values alike.
C3_ModelFrozenAfterTraining == AfterTraining => Model = trained

\* C4: a prediction on a model without any observed label returns no
\* (label, score) pair and does not end in the out-of-bounds read either:
\* the caller is told of the error.
C4_EmptyModelFailsFast ==
    (Predicted /\ DOMAIN label_count = {}) =>
        /\ label_score = NoScore
        /\ num_posts = 0
        /\ pc # "crashed"

\* C5: after training, and after any predictions, the label counts add up
\* to total_posts, the joint counts of every key of word_count add up to its
\* word count, and every key of a joint table is a key of word_count.
C5_CountConservation ==
    AfterTraining =>
        /\ SumOver(label_count, DOMAIN label_count) = total_posts
        /\ \A w \in DOMAIN word_count :
              SumOver([l \in DOMAIN C_w_count |-> Get(C_w_count[l], w)],
                      DOMAIN C_w_count) = word_count[w]
        /\ \A l \in DOMAIN C_w_count : DOMAIN C_w_count[l] \subseteq DOMAIN word_count

\* Two labels trained, two predictions made, one of them on an unseen word.
C5_Witness ==
    /\ pc = "done"
    /\ num_posts = 2
    /\ Cardinality(DOMAIN label_count) = 2
    /\ \E w \in DOMAIN word_count : word_count[w] = 0

C8_DoublingLeavesModelUnchanged ==
    /\ pc = "train" =>
          /\ doubled.total_posts = total_posts
          /\ doubled.word_count = word_count
          /\ doubled.label_count = label_count
          /\ doubled.C_w_count = C_w_count
    /\ AfterTraining => doubled = trained

\* Two posts trained, a word in both of them.
C8_Witness ==
    /\ pc = "trained"
    /\ total_posts = 2
    /\ Cardinality(DOMAIN C_w_count) = 2
    /\ \E w \in DOMAIN word_count : word_count[w] = 2

\* C9: every test record adds one to num_posts and one to num_correct exactly
\* when the predicted label equals the record's tag; test_classifier returns
\* the two counters as they are; 0 <= num_correct <= num_posts throughout.
C9_AccuracyBookkeeping ==
    /\ [](0 <= num_correct /\ num_correct <= num_posts)
    /\ [][(pc = "test" /\ pc' = "test") =>
             /\ num_posts' = num_posts + 1
             /\ num_correct' = num_correct +
                    (IF correct_post'.tag = label_score'[1] THEN 1 ELSE 0)]_vars
    /\ [][(pc = "test" /\ pc' = "done") =>
             UNCHANGED <<num_correct, num_posts>>]_vars

\* Two records tested, one of them predicted correctly.
C9_Witness ==
    /\ pc = "done"
    /\ Scored
    /\ num_posts = 2
    /\ num_correct = 1

\* C10: from the end of training on, vocab_size is the number of keys of
\* word_count.
C10_VocabSizeIsKeyCount ==
    AfterTraining => vocab_size = Cardinality(DOMAIN word_count)
====
